---- MODULE Spec2Model ----
(***************************************************************************)
(* A model of taskn: notes attached to taskwarrior tasks.                  *)
(*   src/taskn/note.py   list / view / edit workflows                      *)
(*   src/taskn/admin.py  archive / alias maintenance                       *)
(* The task store (taskw) and the editor are external collaborators; the   *)
(* helpers of taskn/utils.py (expand_tree, worker_pool, symlink,           *)
(* mkdir_if_needed) are modelled from the specification's text.            *)
(***************************************************************************)
EXTENDS Integers, Sequences, FiniteSets, TLC

VARIABLES
    cmd,      \* the command this process run executes
    pc,       \* position of the main thread
    run,      \* how many times the command has been started
    store,    \* External Task Store: uuid -> task record, or NoTask
    fs,       \* filesystem under the notes directory: path -> entry
    query,    \* list_tasks' status filter
    tasks,    \* list_tasks' shared accumulator (a Python list)
    lpc,      \* enumeration pool: note path -> position of its worker
    apc,      \* maintenance pool: note path of a record -> position of its worker
    log,      \* what each maintenance item logged (the branch it took) in this run
    fs0,      \* the filesystem as the current run found it
    movedBefore, \* stems of the notes that earlier runs moved into the archive
    vanished, \* the notes somebody else removed while this run's pool worked
    links,    \* the aliases directory: alias name -> entry
    links0,   \* the aliases directory as the current run found it
    ref,      \* the positional arguments (ui.task): a sequence of words
    asyncr,   \* --asyncr: detached mode
    fmt,      \* --format
    cur,      \* what get_or_make_task returned: <<id, task>>
    out,      \* how the process ended: "running", "ok", "exit1" or "crash"
    printed,  \* what view_task printed
    editorSaw,  \* the note file as the editor found it when it was started
    store0    \* the task store as the current run found it

envVars == <<cmd, run, store>>
listVars == <<query, tasks, lpc>>
adminVars == <<apc, log, fs0, movedBefore, vanished>>
aliasVars == <<links, links0>>
noteVars == <<ref, asyncr, fmt, cur, out, printed, editorSaw, store0>>
vars == <<cmd, pc, run, store, fs, query, tasks, lpc, apc, log, fs0, movedBefore,
          vanished, links, links0, ref, asyncr, fmt, cur, out, printed, editorSaw, store0>>

\* ------------------------------------------------------------------ bounds
MaxUuid == 3
MaxRuns == 2
MaxVanished == 1

\* ------------------------------------------------------------------ values
None == "None"
\* an absent optional value (Python None) where the present ones are numbers
NoId == <<>>
SomeId(n) == <<n>>
NoTask == [kind |-> "notask"]
Absent == [kind |-> "absent"]

UUIDs == 1..MaxUuid
Statuses == {"pending", "completed"}
Filters == {None, "pending", "completed", "waiting"}

NoteDirs == {"root", "archive"}
NotePaths == NoteDirs \X UUIDs
AllPaths == NotePaths

\* os.path.splitext(os.path.split(note)[-1])[0]
Stem(p) == p[2]

File(d) == [kind |-> "file", data |-> d]

\* task descriptions, as sequences of characters:
\* "a b", "a:b" and "(bw)#1 - c .. x"
Descs ==
    << <<"a", " ", "b">>,
       <<"a", ":", "b">>,
       <<"(", "b", "w", ")", "#", "1", " ", "-", " ", "c", " ", ".", ".", " ", "x">> >>

DescOf(u) == Descs[((u - 1) % Len(Descs)) + 1]

\* a task of the store; the display id is absent once a task is completed
Task(u, st, d) ==
    [id |-> IF st = "completed" THEN NoId ELSE SomeId(u),
     uuid |-> u,
     description |-> d,
     status |-> st,
     annotations |-> <<>>]

\* ------------------------------------------------------------------ helpers
Range(s) == {s[i] : i \in 1..Len(s)}

\* utils.expand_tree(dir, ext): every file under the tree, recursively
ExpandTree(f) == {p \in NotePaths : f[p] # Absent}

\* w.get_task(uuid=uuid): (id-or-None, record), the empty record when unknown
GetTaskByUuid(st, u) ==
    IF st[u] = NoTask THEN <<NoId, NoTask>> ELSE <<st[u].id, st[u]>>

\* note.py 145-148: the listing record of a resolved note
ListingRecord(note, tid, task) ==
    IF tid # NoId
    THEN [task |-> task.description, note |-> note, status |-> task.status,
          id |-> tid]
    ELSE [task |-> task.description, note |-> note, status |-> task.status]

\* render_list_item up to the record (note.py 142-148): task['description'] of
\* the empty record raises KeyError
RenderItemWithDefaults(st, note) ==
    LET r == GetTaskByUuid(st, Stem(note))
    IN IF r[2] = NoTask
       THEN [ok |-> TRUE, rec |-> [task |-> None, note |-> note, status |-> None]]
       ELSE [ok |-> TRUE, rec |-> ListingRecord(note, r[1], r[2])]

RenderItem(st, note) ==
    LET r == GetTaskByUuid(st, Stem(note))
    IN IF r[2] = NoTask
       THEN [ok |-> FALSE]
       ELSE [ok |-> TRUE, rec |-> ListingRecord(note, r[1], r[2])]

Resolves(st, note) == RenderItem(st, note).ok
RenderRecord(st, note) == RenderItem(st, note).rec

\* the filter and the append (note.py 150-151); list.append is one atomic step
RenderAppendNoFilter(acc, o, q) == Append(acc, o)

RenderAppend(acc, o, q) ==
    IF q = None \/ o.status = q THEN Append(acc, o) ELSE acc

\* ------------------------------------------------------------------ list_tasks
ListStart ==
    /\ cmd = "list" /\ pc = "start"
    /\ pc' = "pool"
    /\ tasks' = <<>>
    /\ lpc' = [p \in NotePaths |-> IF p \in ExpandTree(fs) THEN "todo" ELSE "none"]
    /\ UNCHANGED <<envVars, fs, query, adminVars, aliasVars, noteVars>>

\* a pool worker runs render_list_item up to the record; an exception ends
\* the item and nothing else (worker_pool's per-item isolation)
ListLookup(p) ==
    /\ cmd = "list" /\ pc = "pool" /\ lpc[p] = "todo"
    /\ lpc' = [lpc EXCEPT ![p] = IF Resolves(store, p) THEN "got" ELSE "raised"]
    /\ UNCHANGED <<envVars, pc, fs, query, tasks, adminVars, aliasVars, noteVars>>

ListAppend(p) ==
    /\ cmd = "list" /\ pc = "pool" /\ lpc[p] = "got"
    /\ tasks' = RenderAppend(tasks, RenderRecord(store, p), query)
    /\ lpc' = [lpc EXCEPT ![p] = "done"]
    /\ UNCHANGED <<envVars, pc, fs, query, adminVars, aliasVars, noteVars>>

PoolJoined(wp) == \A p \in DOMAIN wp : wp[p] \in {"none", "done", "raised"}

ListReturn ==
    /\ cmd = "list" /\ pc = "pool" /\ PoolJoined(lpc)
    /\ pc' = "returned"
    /\ UNCHANGED <<envVars, fs, listVars, adminVars, aliasVars, noteVars>>

\* ------------------------------------------------------------------ admin.py
\* list_tasks as the caller sees it once the pool has joined: the records in
\* some order (the maintenance pool dispatches them all, so the order is free)
RECURSIVE SeqOfSet(_)
SeqOfSet(S) ==
    IF S = {} THEN <<>>
    ELSE LET x == CHOOSE y \in S : TRUE IN <<x>> \o SeqOfSet(S \ {x})

ListTasks(st, f, q) ==
    SeqOfSet({RenderRecord(st, p) : p \in {n \in ExpandTree(f) :
                  Resolves(st, n) /\ (q = None \/ RenderRecord(st, n).status = q)}})

RecordOf(acc, p) == CHOOSE r \in Range(acc) : r.note = p

\* os.path.join(dst, os.path.basename(src)) with dst the archive directory
Dest(p) == <<"archive", Stem(p)>>

\* move_if_needed's decision, admin.py 33-44
MoveBranchNoCond(cond, value, srcExists, dstExists) ==
    IF ~srcExists THEN "src_missing"
    ELSE IF dstExists THEN "dst_exists"
    ELSE "move"

MoveBranchNoDst(cond, value, srcExists, dstExists) ==
    IF cond = value
    THEN IF ~srcExists THEN "src_missing" ELSE "move"
    ELSE "cond_differs"

MoveBranch(cond, value, srcExists, dstExists) ==
    IF cond = value
    THEN IF ~srcExists THEN "src_missing"
         ELSE IF dstExists THEN "dst_exists"
         ELSE "move"
    ELSE "cond_differs"

\* shutil.move(src, dst) into a directory: refuses an existing destination,
\* fails on a missing source, renames otherwise
ShutilMove(f, src) ==
    IF f[Dest(src)] # Absent \/ f[src] = Absent THEN f
    ELSE [f EXCEPT ![Dest(src)] = f[src], ![src] = Absent]

ShutilMoveRaises(f, src) == f[Dest(src)] # Absent \/ f[src] = Absent

NoLog == [p \in NotePaths |-> "none"]
IdlePool == [p \in NotePaths |-> "none"]

\* main (admin.py 121-130): list_tasks(None, ...), then the command's pool;
\* archive_stale makes the archive directory before it dispatches
AdminStart ==
    /\ cmd \in {"archive", "alias"} /\ pc = "start"
    /\ tasks' = ListTasks(store, fs, None)
    /\ apc' = [p \in NotePaths |->
                 IF \E r \in Range(tasks') : r.note = p THEN "todo" ELSE "none"]
    /\ log' = NoLog
    /\ fs0' = fs
    /\ links0' = links
    /\ pc' = "pool"
    /\ vanished' = {}
    /\ UNCHANGED <<envVars, fs, query, lpc, movedBefore, links, noteVars>>

\* _move_note_if_needed up to the decision
ArchiveCheck(p) ==
    /\ cmd = "archive" /\ pc = "pool" /\ apc[p] = "todo"
    /\ LET b == MoveBranch(RecordOf(tasks, p).status, "completed",
                           fs[p] # Absent, fs[Dest(p)] # Absent)
       IN IF b = "move"
          THEN apc' = [apc EXCEPT ![p] = "moving"] /\ log' = log
          ELSE apc' = [apc EXCEPT ![p] = "done"] /\ log' = [log EXCEPT ![p] = b]
    /\ UNCHANGED <<envVars, pc, fs, listVars, fs0, movedBefore, vanished, aliasVars, noteVars>>

\* shutil.move (admin.py 41)
ArchiveMove(p) ==
    /\ cmd = "archive" /\ pc = "pool" /\ apc[p] = "moving"
    /\ fs' = ShutilMove(fs, p)
    /\ IF ShutilMoveRaises(fs, p)
       THEN apc' = [apc EXCEPT ![p] = "raised"] /\ log' = [log EXCEPT ![p] = "error"]
       ELSE apc' = [apc EXCEPT ![p] = "done"] /\ log' = [log EXCEPT ![p] = "moved"]
    /\ UNCHANGED <<envVars, pc, listVars, fs0, movedBefore, vanished, aliasVars, noteVars>>

\* somebody else (the user, a second archive run) removes the note of a
\* completed task that a worker of the first run has yet to finish: the
\* record of it is stale
NoteVanishes(p) ==
    /\ cmd = "archive" /\ pc = "pool" /\ run = 1
    /\ p[1] = "root" /\ apc[p] \in {"todo", "moving"} /\ fs[p] # Absent
    /\ RecordOf(tasks, p).status = "completed"
    /\ Cardinality(vanished) < MaxVanished
    /\ fs' = [fs EXCEPT ![p] = Absent]
    /\ vanished' = vanished \cup {p}
    /\ UNCHANGED <<envVars, pc, listVars, apc, log, fs0, movedBefore, aliasVars, noteVars>>

\* worker_pool returns once every item has ended
AdminFinish ==
    /\ cmd \in {"archive", "alias"} /\ pc = "pool" /\ PoolJoined(apc)
    /\ pc' = "done"
    /\ UNCHANGED <<envVars, fs, listVars, adminVars, aliasVars, noteVars>>

\* the user runs the same command again, nothing else having changed
AdminAgain ==
    /\ cmd \in {"archive", "alias"} /\ pc = "done" /\ run < MaxRuns
    /\ pc' = "start" /\ run' = run + 1
    /\ movedBefore' = movedBefore \cup {Stem(p) : p \in {n \in NotePaths : log[n] = "moved"}}
    /\ UNCHANGED <<cmd, store, fs, listVars, apc, log, fs0, vanished, aliasVars, noteVars>>

\* ------------------------------------------------------------------ aliases
Max(S) == CHOOSE x \in S : \A y \in S : y <= x
Min(S) == CHOOSE x \in S : \A y \in S : x <= y

Occurs(s, pat, k) ==
    /\ k + Len(pat) - 1 <= Len(s)
    /\ \A j \in 1..Len(pat) : s[k + j - 1] = pat[j]
Positions(s, pat) == {k \in 1..Len(s) : Occurs(s, pat, k)}

\* bugw_re.sub(r'\1', s) with bugw_re = \(bw\).*\#.* - (.*) \.\. .*  (admin.py
\* 75, 78): the leftmost "(bw)" that a later "#" follows, the greedy groups
\* reaching to the last " - " and the last " .. "; the match runs to the end
BugwSub(s) ==
    LET es == Positions(s, <<" ", ".", ".", " ">>)
    IN IF es = {} THEN s
       ELSE LET e == Max(es)
                ds == {d \in Positions(s, <<" ", "-", " ">>) : d + 3 <= e}
            IN IF ds = {} THEN s
               ELSE LET d == Max(ds)
                        is == {i \in Positions(s, <<"(", "b", "w", ")">>) :
                                 \E h \in Positions(s, <<"#">>) : i + 4 <= h /\ h < d}
                    IN IF is = {} THEN s
                       ELSE SubSeq(s, 1, Min(is) - 1) \o SubSeq(s, d + 3, e - 1)

\* delim_re.sub(r' ', s) with delim_re = [\:\;\-\.\,\_]  (admin.py 76, 79)
Delims == {":", ";", "-", ".", ",", "_"}
DelimSub(s) == [i \in 1..Len(s) |-> IF s[i] \in Delims THEN " " ELSE s[i]]

\* str.split(): the maximal runs of non-blank characters
RECURSIVE Split(_)
Split(s) ==
    IF s = <<>> THEN <<>>
    ELSE IF Head(s) = " " THEN Split(Tail(s))
    ELSE LET blanks == {k \in 1..Len(s) : s[k] = " "}
             n == IF blanks = {} THEN Len(s) ELSE Min(blanks) - 1
         IN <<SubSeq(s, 1, n)>> \o Split(SubSeq(s, n + 1, Len(s)))

RECURSIVE Join(_, _)
Join(ws, sep) ==
    IF ws = <<>> THEN <<>>
    ELSE IF Len(ws) = 1 THEN ws[1]
    ELSE ws[1] \o sep \o Join(Tail(ws), sep)

\* _create_note_symlink's name (admin.py 78-81)
NoteName(desc) ==
    Join(<<Join(Split(DelimSub(BugwSub(desc))), <<"-">>), <<"t", "x", "t">>>>, <<".">>)

\* the names of the model's descriptions, computed once
NoteNames == [d \in Range(Descs) |-> NoteName(d)]
AliasNames == Range([i \in 1..Len(Descs) |-> NoteNames[Descs[i]]])

Link(t) == [kind |-> "link", to |-> t]
Dir == [kind |-> "dir"]
IsLink(e) == e.kind = "link"

\* os.path.exists follows a symbolic link: a link whose target is gone does
\* not exist
PathExists(e, f) ==
    IF e.kind = "link" THEN f[e.to] # Absent ELSE e # Absent

AliasOf(acc, p) == NoteNames[RecordOf(acc, p).task]

\* note_symlink, admin.py 50: os.path.exists(alias_path)
SymlinkExists(p) ==
    /\ cmd = "alias" /\ pc = "pool" /\ apc[p] = "todo"
    /\ apc' = [apc EXCEPT ![p] =
                 IF PathExists(links[AliasOf(tasks, p)], fs) THEN "readlink" ELSE "create"]
    /\ UNCHANGED <<envVars, pc, fs, listVars, log, fs0, movedBefore, vanished, aliasVars, noteVars>>

\* admin.py 51: os.readlink raises OSError on what is no symbolic link
SymlinkReadlink(p) ==
    /\ cmd = "alias" /\ pc = "pool" /\ apc[p] = "readlink"
    /\ LET e == links[AliasOf(tasks, p)]
       IN IF ~IsLink(e)
          THEN apc' = [apc EXCEPT ![p] = "raised"] /\ log' = [log EXCEPT ![p] = "error_readlink"]
          ELSE IF e.to = p
          THEN apc' = [apc EXCEPT ![p] = "done"] /\ log' = [log EXCEPT ![p] = "kept"]
          ELSE apc' = [apc EXCEPT ![p] = "islink"] /\ log' = log
    /\ UNCHANGED <<envVars, pc, fs, listVars, fs0, movedBefore, vanished, aliasVars, noteVars>>

\* admin.py 54-56
SymlinkIslink(p) ==
    /\ cmd = "alias" /\ pc = "pool" /\ apc[p] = "islink"
    /\ IF ~IsLink(links[AliasOf(tasks, p)])
       THEN apc' = [apc EXCEPT ![p] = "done"] /\ log' = [log EXCEPT ![p] = "warned"]
       ELSE apc' = [apc EXCEPT ![p] = "remove"] /\ log' = log
    /\ UNCHANGED <<envVars, pc, fs, listVars, fs0, movedBefore, vanished, aliasVars, noteVars>>

\* admin.py 58: os.remove raises when the path is gone or is a directory
SymlinkRemove(p) ==
    /\ cmd = "alias" /\ pc = "pool" /\ apc[p] = "remove"
    /\ LET n == AliasOf(tasks, p)
       IN IF links[n] = Absent \/ links[n] = Dir
          THEN /\ apc' = [apc EXCEPT ![p] = "raised"]
               /\ log' = [log EXCEPT ![p] = "error_remove"]
               /\ links' = links
          ELSE /\ apc' = [apc EXCEPT ![p] = "recreate"]
               /\ log' = log
               /\ links' = [links EXCEPT ![n] = Absent]
    /\ UNCHANGED <<envVars, pc, fs, listVars, fs0, movedBefore, vanished, links0, noteVars>>

\* admin.py 60 and 63: utils.symlink(alias_path, source) makes the link; at a
\* path that holds an entry already (a dangling link included) no link can be
\* made, and the helper either raises or gives up silently
SymlinkCreate(p) ==
    /\ cmd = "alias" /\ pc = "pool" /\ apc[p] \in {"create", "recreate"}
    /\ LET n == AliasOf(tasks, p)
       IN IF links[n] # Absent
          THEN /\ links' = links
               /\ \E o \in {"error_exists", "not_made"} :
                     /\ log' = [log EXCEPT ![p] = o]
                     /\ apc' = [apc EXCEPT ![p] = IF o = "error_exists" THEN "raised" ELSE "done"]
          ELSE /\ links' = [links EXCEPT ![n] = Link(p)]
               /\ log' = [log EXCEPT ![p] = IF apc[p] = "create" THEN "created" ELSE "replaced"]
               /\ apc' = [apc EXCEPT ![p] = "done"]
    /\ UNCHANGED <<envVars, pc, fs, listVars, fs0, movedBefore, vanished, links0, noteVars>>

\* ------------------------------------------------------------------ note.py: edit, view
\* the words a user may type; int() reads the decimal ones
Numerals == [w \in {"1", "9"} |-> CASE w = "1" -> 1 [] w = "9" -> 9]
IsInt(w) == w \in DOMAIN Numerals
Int_(w) == Numerals[w]

\* the references a user may give: none, an id in use, an id not in use, one
\* word, some words, some numbers
Refs == {<<>>, <<"1">>, <<"9">>, <<"milk">>, <<"buy", "milk">>, <<"1", "9">>}

Tag == "[tasknote]"
Contents == {<<>>, <<"x", "y">>, <<"y">>}
Annotation(tagged, text) == [tagged |-> tagged, text |-> text]
Carries(a, tag) == a.tagged

NotePath(u) == <<"root", u>>

\* w.get_task(id=n): the empty record when no task has the id
GetTaskById(st, n) ==
    IF \E u \in UUIDs : st[u] # NoTask /\ st[u].id = SomeId(n)
    THEN LET u == CHOOSE v \in UUIDs : st[v] # NoTask /\ st[v].id = SomeId(n)
         IN <<st[u].id, st[u]>>
    ELSE <<NoId, NoTask>>

FreeUuids(st) == {u \in UUIDs : st[u] = NoTask}

\* wo.task_add(description=..., project='note'): a new pending task
TaskAdd(st, desc) ==
    LET u == Min(FreeUuids(st)) IN [st EXCEPT ![u] = Task(u, "pending", desc)]

\* ' '.join(task)
JoinWords(ws) == Join([i \in 1..Len(ws) |-> <<ws[i]>>], <<" ">>)

\* get_or_make_task's branch (note.py 42-56)
RefShape(r) ==
    IF r = <<>> THEN "unspecified"
    ELSE IF Len(r) = 1
         THEN IF IsInt(r[1]) THEN "lookup" ELSE "not_a_number"
         ELSE "add"

\* w.task_denotate(task, tag): the store drops the annotation carrying the tag
RECURSIVE Denotate(_, _)
Denotate(anns, tag) ==
    IF anns = <<>> THEN <<>>
    ELSE IF Carries(Head(anns), tag) THEN Tail(anns)
    ELSE <<Head(anns)>> \o Denotate(Tail(anns), tag)

\* f.readline(): the first line, the empty string at the end of the file
ReadLine(content) == IF content = <<>> THEN "" ELSE content[1]

\* update_annotation (note.py 105-113)
UpdateAnnotationKeepingOld(anns, content) ==
    Append(anns, Annotation(TRUE, ReadLine(content)))

UpdateAnnotation(anns, content) ==
    Append(Denotate(anns, Tag), Annotation(TRUE, ReadLine(content)))

\* open_editor's first lines (note.py 79-81)
EnsureFileTruncating(e) == File(<<>>)

EnsureFile(e) == IF e = Absent THEN File(<<>>) ELSE e

Uuid(c) == c[2].uuid

\* main's last branch (note.py 230): get_or_make_task(ui.task)
GetOrMakeTask ==
    /\ cmd = "edit" /\ pc = "start"
    /\ LET shape == RefShape(ref)
       IN CASE shape = "unspecified" ->
                 /\ out' = "exit1" /\ pc' = "done"
                 /\ UNCHANGED <<store, cur>>
            [] shape = "not_a_number" ->
                 \* int(task[0]) raises ValueError: 'no task with id ...'
                 /\ out' = "exit1" /\ pc' = "done"
                 /\ UNCHANGED <<store, cur>>
            [] shape = "lookup" ->
                 LET r == GetTaskById(store, Int_(ref[1]))
                 IN IF r[2] # NoTask
                    THEN /\ cur' = r /\ pc' = "resolved"
                         /\ UNCHANGED <<store, out>>
                    ELSE \* the store either raises (ValueError is caught:
                         \* exit(1)) or hands back the empty record
                         \/ /\ out' = "exit1" /\ pc' = "done"
                            /\ UNCHANGED <<store, cur>>
                         \/ /\ cur' = r /\ pc' = "resolved"
                            /\ UNCHANGED <<store, out>>
            [] shape = "add" ->
                 /\ FreeUuids(store) # {}
                 /\ store' = TaskAdd(store, JoinWords(ref))
                 /\ cur' = GetTaskById(store', Min(FreeUuids(store)))
                 /\ pc' = "resolved"
                 /\ out' = out
    /\ UNCHANGED <<cmd, run, fs, listVars, adminVars, aliasVars,
                   ref, asyncr, fmt, printed, editorSaw, store0>>

\* edit_note up to the editor (note.py 63-71) and open_editor's file check
\* (79-81): task['uuid'] of the empty record raises KeyError
EditNoteOpen ==
    /\ cmd = "edit" /\ pc = "resolved"
    /\ IF cur[2] = NoTask
       THEN /\ out' = "crash" /\ pc' = "done" /\ fs' = fs
       ELSE /\ fs' = [fs EXCEPT ![NotePath(Uuid(cur))] = EnsureFile(@)]
            /\ pc' = "launch" /\ out' = out
    /\ UNCHANGED <<envVars, listVars, adminVars, aliasVars,
                   ref, asyncr, fmt, cur, printed, editorSaw, store0>>

\* the editor process is started: Popen and return (note.py 83-90), or
\* check_call, which waits (91-98)
EditorLaunch ==
    /\ cmd = "edit" /\ pc = "launch"
    /\ editorSaw' = fs[NotePath(Uuid(cur))]
    /\ IF asyncr
       THEN pc' = "done" /\ out' = "ok"
       ELSE pc' = "editing" /\ out' = out
    /\ UNCHANGED <<envVars, fs, listVars, adminVars, aliasVars,
                   ref, asyncr, fmt, cur, printed, store0>>

\* the editor (external) leaves some text in the file and exits; a non-zero
\* exit is CalledProcessError: exit(1) (note.py 100-102)
EditorExit ==
    /\ cmd = "edit" /\ pc = "editing"
    /\ \E c \in Contents, code \in {0, 1} :
          /\ fs' = [fs EXCEPT ![NotePath(Uuid(cur))] = File(c)]
          /\ IF code = 0
             THEN pc' = "annotate" /\ out' = out
             ELSE pc' = "done" /\ out' = "exit1"
    /\ UNCHANGED <<envVars, listVars, adminVars, aliasVars,
                   ref, asyncr, fmt, cur, printed, editorSaw, store0>>

\* edit_note's last lines (note.py 73-75)
EditAnnotate ==
    /\ cmd = "edit" /\ pc = "annotate"
    /\ LET u == Uuid(cur)
       IN store' = [store EXCEPT ![u].annotations =
                       UpdateAnnotation(@, fs[NotePath(u)].data)]
    /\ pc' = "done" /\ out' = "ok"
    /\ UNCHANGED <<cmd, run, fs, listVars, adminVars, aliasVars,
                   ref, asyncr, fmt, cur, printed, editorSaw, store0>>

\* view_task (note.py 116-138); every exception is uncaught
ViewOutput(f, task, content) ==
    IF f = "note" THEN [text |-> content]
    ELSE IF f = "yaml" THEN [data |-> task, notation |-> <<"">> \o content]
    ELSE [data |-> task, notation |-> content]

ViewTask ==
    /\ cmd = "view" /\ pc = "start"
    /\ pc' = "done"
    /\ IF ref = <<>> \/ ~IsInt(ref[1])
       THEN out' = "crash" /\ printed' = printed
       ELSE LET data == GetTaskById(store, Int_(ref[1]))[2]
            IN IF data = NoTask \/ fs[NotePath(data.uuid)] = Absent
               THEN out' = "crash" /\ printed' = printed
               ELSE /\ out' = "ok"
                    /\ printed' = ViewOutput(fmt, data, fs[NotePath(data.uuid)].data)
    /\ UNCHANGED <<envVars, fs, listVars, adminVars, aliasVars,
                   ref, asyncr, fmt, cur, editorSaw, store0>>

NotStarted == [kind |-> "not started"]
NoOutput == [none |-> TRUE]
NoCur == <<NoId, NoTask>>

\* the user runs the tool again on the same reference, in any mode
NoteAgain ==
    /\ cmd \in {"edit", "view"} /\ pc = "done" /\ run < MaxRuns
    /\ run' = run + 1 /\ pc' = "start"
    /\ cmd' \in {"edit", "view"}
    /\ ref' = ref /\ asyncr' \in BOOLEAN /\ fmt' \in {"note", "yaml", "json"}
    /\ (cmd' = "edit" /\ RefShape(ref') = "add") => FreeUuids(store) # {}
    /\ cmd' = "view" => asyncr' = FALSE
    /\ cmd' = "edit" => fmt' = "note"
    /\ cur' = NoCur /\ out' = "running" /\ printed' = NoOutput
    /\ editorSaw' = NotStarted
    /\ store0' = store /\ fs0' = fs
    /\ UNCHANGED <<store, fs, listVars, apc, log, movedBefore, vanished, aliasVars>>

\* ------------------------------------------------------------------ initial states
AdminIdle ==
    /\ apc = IdlePool /\ log = NoLog /\ fs0 = fs /\ movedBefore = {} /\ vanished = {}

NoLinks == [n \in AliasNames |-> Absent]

NoteIdle ==
    /\ ref = <<>> /\ asyncr = FALSE /\ fmt = "note" /\ cur = NoCur /\ out = "running"
    /\ printed = NoOutput /\ editorSaw = NotStarted /\ store0 = store

StoreStates == [UUIDs -> {"unknown"} \cup Statuses]
MkStore(s) == [u \in UUIDs |-> IF s[u] = "unknown" THEN NoTask ELSE Task(u, s[u], DescOf(u))]

NoteFs(present) == [p \in AllPaths |-> IF p \in present THEN File(p) ELSE Absent]

InitList ==
    /\ cmd = "list" /\ pc = "start" /\ run = 1
    /\ \E s \in StoreStates : store = MkStore(s)
    /\ \E present \in SUBSET NotePaths :
          /\ \A u \in UUIDs : <<"archive", u>> \in present => u = 1
          /\ fs = NoteFs(present)
    /\ query \in Filters
    /\ tasks = <<>>
    /\ lpc = [p \in NotePaths |-> "none"]
    /\ AdminIdle
    /\ links = NoLinks /\ links0 = NoLinks
    /\ NoteIdle

NextList ==
    \/ ListStart
    \/ \E p \in NotePaths : ListLookup(p)
    \/ \E p \in NotePaths : ListAppend(p)
    \/ ListReturn

SpecList == InitList /\ [][NextList]_vars

InitArchive ==
    /\ cmd = "archive" /\ pc = "start" /\ run = 1
    /\ \E s \in StoreStates :
          /\ \A u \in UUIDs : s[u] = "unknown" => u = 1
          /\ store = MkStore(s)
    /\ \E present \in SUBSET NotePaths :
          \* an archived copy without its note is what a run leaves behind
          /\ \A u \in UUIDs : <<"archive", u>> \in present => <<"root", u>> \in present
          /\ fs = NoteFs(present)
    /\ query = None /\ tasks = <<>> /\ lpc = IdlePool
    /\ AdminIdle
    /\ links = NoLinks /\ links0 = NoLinks
    /\ NoteIdle

NextArchive ==
    \/ AdminStart
    \/ \E p \in NotePaths : ArchiveCheck(p)
    \/ \E p \in NotePaths : ArchiveMove(p)
    \/ \E p \in NotePaths : NoteVanishes(p)
    \/ AdminFinish
    \/ AdminAgain

SpecArchive == InitArchive /\ [][NextArchive]_vars

AliasEntries == {Absent, File("user data"), Dir} \cup {Link(<<"root", u>>) : u \in UUIDs}

InitAlias ==
    /\ cmd = "alias" /\ pc = "start" /\ run = 1
    /\ \E d \in [UUIDs -> 1..Len(Descs)] :
          store = [u \in UUIDs |-> Task(u, "pending", Descs[d[u]])]
    /\ \E present \in SUBSET ({"root"} \X UUIDs) : fs = NoteFs(present)
    /\ links \in [AliasNames -> AliasEntries]
    /\ links0 = links
    /\ query = None /\ tasks = <<>> /\ lpc = IdlePool
    /\ AdminIdle
    /\ NoteIdle

NextAlias ==
    \/ AdminStart
    \/ \E p \in NotePaths : SymlinkExists(p)
    \/ \E p \in NotePaths : SymlinkReadlink(p)
    \/ \E p \in NotePaths : SymlinkIslink(p)
    \/ \E p \in NotePaths : SymlinkRemove(p)
    \/ \E p \in NotePaths : SymlinkCreate(p)
    \/ AdminFinish
    \/ AdminAgain

SpecAlias == InitAlias /\ [][NextAlias]_vars

\* the annotations a task may hold when the tool starts: the user's own, and
\* at most one carrying the tag (the tool never leaves more)
InitAnnotations ==
    {<<>>, <<Annotation(FALSE, "u")>>, <<Annotation(TRUE, "x")>>,
     <<Annotation(TRUE, "y"), Annotation(FALSE, "u")>>}

InitNote ==
    /\ cmd \in {"edit", "view"} /\ pc = "start" /\ run = 1
    /\ \E k \in 0..(MaxUuid - 1), a \in InitAnnotations :
          store = [u \in UUIDs |->
                     IF u > k THEN NoTask
                     ELSE [Task(u, "pending", DescOf(u)) EXCEPT
                             !.annotations = IF u = 1 THEN a ELSE <<>>]]
    /\ \E e \in {Absent, File(<<"x", "y">>)} :
          /\ store[1] = NoTask => e = Absent
          /\ fs = [p \in NotePaths |-> IF p = NotePath(1) THEN e ELSE Absent]
    /\ ref \in Refs /\ asyncr \in BOOLEAN /\ fmt \in {"note", "yaml", "json"}
    /\ (cmd = "edit" /\ RefShape(ref) = "add") => FreeUuids(store) # {}
    /\ cmd = "view" => asyncr = FALSE
    /\ cmd = "edit" => fmt = "note"
    /\ cur = NoCur /\ out = "running" /\ printed = NoOutput
    /\ editorSaw = NotStarted /\ store0 = store
    /\ query = None /\ tasks = <<>> /\ lpc = IdlePool
    /\ apc = IdlePool /\ log = NoLog /\ fs0 = fs /\ movedBefore = {} /\ vanished = {}
    /\ links = NoLinks /\ links0 = NoLinks

NextNote ==
    \/ GetOrMakeTask
    \/ EditNoteOpen
    \/ EditorLaunch
    \/ EditorExit
    \/ EditAnnotate
    \/ ViewTask
    \/ NoteAgain

SpecNote == InitNote /\ [][NextNote]_vars

\* ------------------------------------------------------------------ properties
\* the record list_tasks owes for a note file of a known task, from the store
ExpectedRecord(p) ==
    LET t == store[Stem(p)]
    IN IF t.id = NoId
       THEN [task |-> t.description, note |-> p, status |-> t.status]
       ELSE [task |-> t.description, note |-> p, status |-> t.status, id |-> t.id]

Known(p) == store[Stem(p)] # NoTask
ExpectedList ==
    {ExpectedRecord(p) : p \in {n \in ExpandTree(fs) :
        Known(n) /\ (query = None \/ store[Stem(n)].status = query)}}

\* a note of the current archive run that is due: completed, present, and
\* nothing of its name in the archive when the run began
Due(p) ==
    /\ p \in ExpandTree(fs0) /\ Known(p)
    /\ store[Stem(p)].status = "completed"
    /\ fs0[Dest(p)] = Absent

\* C1: archive_stale moves a record's note into the archive only when its
\* status is 'completed', the source exists and nothing of that base name is in
\* the archive; otherwise nothing moves: the source stays, and an existing
\* destination is never overwritten or altered.
C1_ArchiveMovesOnlyWhenDue ==
    (cmd = "archive" /\ pc \in {"pool", "done"}) =>
        \A u \in UUIDs :
            LET src == <<"root", u>>
                dst == <<"archive", u>>
            IN /\ log[dst] \notin {"moved", "error"}
               /\ log[src] = "error" => src \in vanished
               /\ IF log[src] = "moved"
                  THEN Due(src) /\ fs[dst] = fs0[src] /\ fs[src] = Absent
                  ELSE /\ fs[src] = IF src \in vanished THEN Absent ELSE fs0[src]
                       /\ fs[dst] = fs0[dst]
               /\ fs0[dst] # Absent => fs[dst] = fs0[dst]
               /\ pc = "done" =>
                     /\ (Due(src) /\ src \notin vanished) => log[src] = "moved"
                     /\ (src \in ExpandTree(fs0) /\ Known(src) /\ ~Due(src)
                            /\ src \notin vanished) =>
                           log[src] = IF store[u].status # "completed"
                                      THEN "cond_differs" ELSE "dst_exists"
                     /\ log[src] = "src_missing" =>
                           src \in vanished /\ store[u].status = "completed"

\* one run in which a note is moved, another is kept back by a file of its
\* name in the archive, and a third is gone before its worker looks
C1_Witness ==
    /\ cmd = "archive" /\ pc = "done" /\ run = 1
    /\ \E u \in UUIDs : log[<<"root", u>>] = "moved"
    /\ \E u \in UUIDs : log[<<"root", u>>] = "dst_exists"
    /\ \E u \in UUIDs : log[<<"root", u>>] = "src_missing"

\* C2 as stated: a second archive run leaves the filesystem as the first left
\* it, moves nothing, raises nothing, and for a note the first run moved takes
\* the branch that reports the source no longer exists.
C2_AsStated ==
    (cmd = "archive" /\ pc = "done" /\ run >= 2) =>
        /\ fs = fs0
        /\ \A p \in NotePaths : log[p] \notin {"moved", "error"}
        /\ \A u \in movedBefore :
              \E p \in NotePaths : Stem(p) = u /\ log[p] = "src_missing"

\* C2 amended: a second archive run leaves the filesystem as the first left it,
\* moves nothing and raises nothing; a note the first run moved is enumerated
\* at its place in the archive and takes the branch that warns that the
\* destination file exists, and no item reports a missing source.
C2_ArchiveIdempotent ==
    (cmd = "archive" /\ pc = "done" /\ run >= 2) =>
        /\ fs = fs0
        /\ \A p \in NotePaths : log[p] \notin {"moved", "error", "src_missing"}
        /\ \A u \in movedBefore :
              /\ log[<<"archive", u>>] = "dst_exists"
              /\ log[<<"root", u>>] = "none"

C2_Witness ==
    /\ cmd = "archive" /\ pc = "done" /\ run = 2
    /\ movedBefore # {}
    /\ \E u \in UUIDs : u \notin movedBefore /\ log[<<"root", u>>] = "dst_exists"

\* C5: a note file whose uuid the task store does not resolve yields no
\* record, does not fail list_tasks, and the records of the other note files
\* of the same pool run are still returned.
C5_UnresolvedNotesAreIsolated ==
    cmd = "list" =>
        /\ \A p \in NotePaths : ~Known(p) =>
              \A i \in 1..Len(tasks) : tasks[i].note # p
        /\ (pc = "pool" /\ PoolJoined(lpc)) => ENABLED ListReturn
        /\ pc = "returned" =>
              /\ \A p \in ExpandTree(fs) : ~Known(p) => lpc[p] = "raised"
              /\ \A r \in ExpectedList : \E i \in 1..Len(tasks) : tasks[i] = r

C5_Witness ==
    /\ cmd = "list" /\ pc = "returned"
    /\ \E p \in ExpandTree(fs) : ~Known(p)
    /\ Len(tasks) >= 2

\* C6: whatever the interleaving of the pool's workers, list_tasks returns,
\* after every dispatched item has ended, exactly one record per note file
\* whose uuid resolves and whose status passes the filter: none lost, none
\* duplicated, in any order.
C6_ListIsSetEqualToExpected ==
    cmd = "list" =>
        /\ \A i, j \in 1..Len(tasks) : tasks[i] = tasks[j] => i = j
        /\ Range(tasks) \subseteq ExpectedList
        /\ pc = "returned" =>
              /\ Range(tasks) = ExpectedList
              /\ Len(tasks) = Cardinality(ExpectedList)
              /\ \A p \in NotePaths : lpc[p] \in {"none", "done", "raised"}

\* two records appended in the opposite order of their note paths' lookup
C6_Witness ==
    /\ cmd = "list" /\ pc = "returned" /\ query = "pending"
    /\ Len(tasks) = 2
    /\ tasks[1].note = <<"root", 2>> /\ tasks[2].note = <<"root", 1>>
    /\ \E p \in ExpandTree(fs) : Known(p) /\ store[Stem(p)].status = "completed"

\* the records of the current maintenance run and the alias path of each
Records == {p \in NotePaths : apc[p] # "none"}
NoCollision == \A p, q \in Records : AliasOf(tasks, p) = AliasOf(tasks, q) => p = q

\* C3 as stated: where the derived alias path holds a regular file or a
\* directory, note_symlink leaves the entry untouched, makes no link, and the
\* item ends as a soft skip with a warning, not with an error raised.
C3_AsStated ==
    (cmd = "alias" /\ pc = "done") =>
        \A p \in Records :
            LET n == AliasOf(tasks, p)
            IN (links0[n] # Absent /\ ~IsLink(links0[n])) =>
                  links[n] = links0[n] /\ log[p] = "warned"

\* C4 as stated: after generate_aliases every alias path that was absent or a
\* symbolic link (right, pointing at another file, or stale) is a link to the
\* record's note file; a right link is not recreated; a second run changes
\* nothing and raises no error.  Stated for records whose alias names differ.
C4_AsStated ==
    (cmd = "alias" /\ pc = "done" /\ NoCollision) =>
        /\ \A p \in Records :
              LET n == AliasOf(tasks, p)
              IN /\ (links0[n] = Absent \/ IsLink(links0[n])) => links[n] = Link(p)
                 /\ links0[n] = Link(p) => log[p] = "kept"
        /\ run >= 2 => links = links0 /\ \A p \in Records : log[p] # "error_exists"

\* the annotations of task u when the current run began (none for a task the
\* run added)
AnnotationsBefore(u) == IF store0[u] = NoTask THEN <<>> ELSE store0[u].annotations
TaggedOnes(anns) == SelectSeq(anns, LAMBDA a : a.tagged)
OtherOnes(anns) == SelectSeq(anns, LAMBDA a : ~a.tagged)
FirstLineOf(p) == IF fs[p].data = <<>> THEN "" ELSE fs[p].data[1]

\* C7: a detached edit never changes a task's annotations; a synchronous edit
\* whose editor exits with 0 leaves the task with exactly one annotation
\* carrying the tag, its text the first line of the note file, in place of
\* the tagged one it had (the other annotations stay).
C7_EditAnnotation ==
    cmd = "edit" =>
        /\ asyncr =>
              \A u \in UUIDs : store[u] # NoTask =>
                  store[u].annotations = AnnotationsBefore(u)
        /\ (~asyncr /\ pc = "done" /\ out = "ok") =>
              LET u == Uuid(cur)
              IN /\ TaggedOnes(store[u].annotations) =
                       <<[tagged |-> TRUE, text |-> FirstLineOf(NotePath(u))]>>
                 /\ OtherOnes(store[u].annotations) = OtherOnes(AnnotationsBefore(u))

\* a second synchronous edit replaces the tagged annotation of the first
C7_Witness ==
    /\ cmd = "edit" /\ ~asyncr /\ pc = "done" /\ out = "ok" /\ run = 2
    /\ TaggedOnes(AnnotationsBefore(Uuid(cur))) # <<>>
    /\ TaggedOnes(AnnotationsBefore(Uuid(cur))) # TaggedOnes(store[Uuid(cur)].annotations)
    /\ OtherOnes(AnnotationsBefore(Uuid(cur))) # <<>>

\* C8 as stated: view_task on an existing task whose note file is absent does
\* not fail; it prints the empty note, or the task record with an empty
\* notation.
C8_AsStated ==
    (cmd = "view" /\ pc = "done" /\ Len(ref) = 1 /\ IsInt(ref[1])) =>
        LET data == GetTaskById(store, Int_(ref[1]))[2]
        IN (data # NoTask /\ fs[NotePath(data.uuid)] = Absent) =>
              /\ out = "ok"
              /\ printed = IF fmt = "note" THEN [text |-> <<>>]
                            ELSE IF fmt = "yaml" THEN [data |-> data, notation |-> <<"">>]
                            ELSE [data |-> data, notation |-> <<>>]

\* C9 as stated: no reference is a hard failure; a single numeric id not in
\* the store is a hard failure; any other reference of at least one word
\* adds a task described by the words joined by blanks and returns it; a hard
\* failure adds no task, makes no note file, starts no editor and changes no
\* annotation.  (A missing id counts as failed whether the process ends by
\* exit(1) or by the KeyError on the empty record.)
NumericRef == Len(ref) = 1 /\ IsInt(ref[1])
C9_AsStated ==
    (cmd = "edit" /\ pc # "start") =>
        /\ (ref = <<>> \/ (NumericRef /\ GetTaskById(store0, Int_(ref[1]))[2] = NoTask)) =>
              (pc = "done" =>
                  /\ out \in {"exit1", "crash"}
                  /\ store = store0 /\ fs = fs0 /\ editorSaw = NotStarted)
        /\ (ref # <<>> /\ ~NumericRef) =>
              \E u \in UUIDs :
                  /\ store0[u] = NoTask /\ store[u] # NoTask
                  /\ store[u].description = JoinWords(ref)
                  /\ cur[2] # NoTask /\ cur[2].uuid = u

\* C10: in either mode the note file exists when the editor is started:
\* open_editor made it, empty, if it was absent and left its content alone
\* otherwise; in synchronous mode a non-zero editor exit ends the process
\* before update_annotation, the annotations unchanged.
C10_FileExistsWhenEditorStarts ==
    (cmd = "edit" /\ editorSaw # NotStarted) =>
        LET p == NotePath(Uuid(cur))
        IN /\ editorSaw # Absent
           /\ editorSaw = IF fs0[p] = Absent THEN [kind |-> "file", data |-> <<>>]
                           ELSE fs0[p]
           /\ (~asyncr /\ pc = "done" /\ out # "ok") =>
                 /\ out = "exit1"
                 /\ \A u \in UUIDs : store[u] # NoTask =>
                       store[u].annotations = AnnotationsBefore(u)

\* the editor of a synchronous edit failed on a note with text and an
\* annotated task
C10_Witness ==
    /\ cmd = "edit" /\ ~asyncr /\ pc = "done" /\ out = "exit1"
    /\ editorSaw \notin {NotStarted, Absent}
    /\ editorSaw.data # <<>>
    /\ fs[NotePath(Uuid(cur))] # editorSaw
    /\ TaggedOnes(store[Uuid(cur)].annotations) # <<>>

====
